---- MODULE Spec2Model ----
(***************************************************************************)
(* A model of TransformerTTS: the autoregressive and the forward           *)
(* transformer (src/model/models.py) and the attention diagnostics         *)
(* (src/utils/metrics.py).                                                 *)
(*                                                                         *)
(* Tensors are modelled by what the checked properties read of them: a mel *)
(* sequence is a sequence of frame identities, a stop distribution a       *)
(* triple of integer weights, an attention row a tuple of integer weights, *)
(* a real-valued score a pair of integers (numerator, denominator).  The   *)
(* neural layers are external: what they compute is a nondeterministic     *)
(* choice, their shapes are as the calling code fixes them.                *)
(***************************************************************************)
EXTENDS Integers, Sequences, FiniteSets, TLC

VARIABLES
    \* ---- the model instance (both classes share these attributes)
    kind,           \* "autoregressive" | "forward": the class of the instance
    debug,          \* self.debug
    r,              \* self.r (autoregressive only)
    drop_n_heads,   \* self.drop_n_heads
    rate,           \* self.decoder_prenet.rate, in tenths (autoregressive only)
    lr,             \* self.optimizer.lr
    bound,          \* entry point -> the callable bound to it
    last_call,      \* what the latest entry-point invocation ran
    \* ---- AutoregressiveTransformer.predict
    pc,             \* position in predict
    max_length,     \* argument of predict
    cap,            \* length of range(max_length // r + 1)
    i,              \* loop variable
    output,         \* conditioning sequence fed to the decoder
    output_concat,  \* accumulator of every generated frame
    out_dict,       \* the returned dictionary
    stop_hist,      \* stop_pred of every executed iteration, in order
    broke,          \* the loop was left by its break statement
    \* ---- utils.metrics.attention_score, one example and one head
    att,            \* attention weights: a sequence of query rows over the keys
    mel_len,        \* valid length of the query axis
    phon_len,       \* valid length of the key axis
    score_r,        \* argument r
    mpc,            \* "given": arguments chosen; "scored": the scores returned
    loc_score,      \* jump score, <<numerator, denominator>>
    peak_score,     \* peak score, <<numerator, denominator>>
    diag_score,     \* diagonality sum, <<numerator, denominator>>
    peak_unpadded,  \* peak score returned before the query axis was padded
    diag_before,    \* diagonality sum returned before attention mass was moved
    moved,          \* <<row, from key, to key>> of the moved mass (1-based), or <<>>
    \* ---- ForwardTransformer.call
    fpc,              \* "args": arguments chosen; "called": call returned
    x_len,            \* number of tokens of the input sequence
    target_durations, \* None, or one duration per token
    durations,        \* output of dur_pred, one duration per token
    durations_scalar, \* <<numerator, denominator>>
    durations_mask,   \* None, or one maximum duration per token
    use_durations,    \* the durations handed to expand
    mels,             \* output of expand: the token each frame is a copy of
    inp,              \* ForwardTransformer.predict: the symbol of every input token
    phoneme_max_duration, \* predict: None, or the items <<key, cap>> of the mapping, in order
    any_idx,          \* the symbol whose index tokenizer('any')[0] is
    \* ---- train_step and val_step of both classes
    spc,              \* "batch": a batch is given; "stepped": the step returned
    step_fn,          \* "train_step" | "val_step": the step that ran
    world,            \* the batch and the weights, as far as loss values depend on them
    tar_len,          \* autoregressive: frames of the target mel, start frame included
    target_pitch,     \* forward: target pitch per token, after expand_dims
    pitch,            \* forward: output of pitch_pred per token
    model_out,        \* what the step returns: loss, losses and the shapes
    iterations,       \* self.optimizer.iterations
    weights_version,  \* number of updates the trainable variables received
    \* ---- utils.config_loader.ConfigLoader
    config,           \* the keys of the configuration dictionary
    cpc,              \* "given" | "constructed" | "failed" | "built" | "build_failed"
    error,            \* the exception raised: its type and the keys it names
    values_read,      \* the keys whose value was read from self.config
    built_model       \* the class of the model a builder returned

configVars == <<config, cpc, error, values_read, built_model>>
modelVars == <<kind, debug, r, drop_n_heads, rate, lr, bound, last_call>>
predictVars == <<pc, max_length, cap, i, output, output_concat, out_dict, stop_hist, broke>>
metricVars == <<att, mel_len, phon_len, score_r, mpc, loc_score, peak_score, diag_score,
                peak_unpadded, diag_before, moved>>
forwardVars == <<fpc, x_len, target_durations, durations, durations_scalar, durations_mask,
                 use_durations, mels, inp, phoneme_max_duration, any_idx>>
stepVars == <<spc, step_fn, world, tar_len, target_pitch, pitch, model_out, iterations,
              weights_version>>

-----------------------------------------------------------------------------
(* Bounds of the model *)

\* constructor argument max_r (the final projection is sized for it)
max_r == 3
\* largest head-drop count passed to set_constants
MaxHeads == 1
\* largest max_length passed to predict
MaxLength == 9
\* largest query axis (mel_dim) and the key axis (phoneme_dim) of an attention tensor
MaxMel == 3
PhonSize == 3
\* largest r passed to attention_score
MaxJump == 2
\* durations are fixed-point numbers: Unit steps to a frame
Unit == 4
\* longest token sequence given to the forward model, and the longest one
\* for which every combination of predicted durations is drawn
MaxTokens == 5
MaxPredTokens == 3
\* largest target duration, in frames
MaxDur == 3
\* bounds of a training batch: tokens (forward), target frames
\* (autoregressive), optimizer steps taken before, distinct batches
MaxStepTokens == 2
MaxTar == 5
MaxSteps == 2
MaxWorld == 2
\* most keys a configuration lacks
MaxMissing == 2
\* longest text given to ForwardTransformer.predict
MaxText == 2
\* largest max_length of a predict call between other calls
ShortLength == 2

-----------------------------------------------------------------------------
(* Values *)

\* self.stop_prob_index = 2, as a 0-based index into a stop distribution
stop_prob_index == 2

\* an optional argument: None, or a value
None == <<>>
Some(v) == <<v>>
Opt(S) == {None} \cup {Some(v) : v \in S}

\* attribute an instance of the forward class does not have
NoAttr == -1

\* decoder_prenet_dropout=0.5 (tenths)
DefaultRate == 5
RateVals == {0, DefaultRate}
\* learning rates: the one the optimizer was built with, and another
InitLr == 1
LrVals == {0, InitLr}
RVals == 0..(max_r + 1)
HeadVals == 0..MaxHeads

ArEntryPoints == {"forward", "train_step", "val_step", "forward_encoder", "forward_decoder"}
FwdEntryPoints == {"forward", "forward_masked", "train_step", "val_step"}
EntryPoints(k) == IF k = "autoregressive" THEN ArEntryPoints ELSE FwdEntryPoints

\* A callable bound to an entry point: the python method itself, or a
\* tf.function that is traced at its first call and then keeps the graph of
\* that trace (one input signature: one graph).  A graph holds the python
\* values self.r and self.drop_n_heads had when it was traced.
Eager == [mode |-> "eager", r |-> NoAttr, heads |-> NoAttr]
Untraced == [mode |-> "untraced", r |-> NoAttr, heads |-> NoAttr]
Graph(gr, gh) == [mode |-> "graph", r |-> gr, heads |-> gh]

NoCall == [ep |-> "none", raised |-> FALSE, ran_r |-> NoAttr, ran_heads |-> NoAttr,
           r |-> NoAttr, heads |-> NoAttr]

-----------------------------------------------------------------------------
(* Binding of the entry points *)

\* _apply_signature: the function itself in debug mode, else a new tf.function
ApplySignature(dbg) == IF dbg THEN Eager ELSE Untraced

\* _apply_all_signatures: every entry point is bound again
ApplyAllSignatures(k, dbg, old) == [e \in EntryPoints(k) |-> ApplySignature(dbg)]

\* a _set_r without the early return: it binds again whatever the value
SetRAlwaysRebinds(k, dbg, cur, b, new) ==
    [r |-> new, bound |-> ApplyAllSignatures(k, dbg, b)]

\* _set_r: returns at once when the value is the current one
SetR(k, dbg, cur, b, new) ==
    IF cur = new THEN [r |-> cur, bound |-> b]
    ELSE [r |-> new, bound |-> ApplyAllSignatures(k, dbg, b)]

\* _set_heads (both classes)
SetHeadsNoRebind(k, dbg, cur, b, new) == [heads |-> new, bound |-> b]
SetHeads(k, dbg, cur, b, new) ==
    IF cur = new THEN [heads |-> cur, bound |-> b]
    ELSE [heads |-> new, bound |-> ApplyAllSignatures(k, dbg, b)]

\* whether the body of entry point e raises under reduction factor cr:
\* _call_decoder reshapes max_r * mel_channels values per step (the slice
\* [:r * mel_channels] cannot take more) into r frames, which fails for
\* r > max_r; _gta_forward slices with step r, which fails for r = 0
Raises(k, e, cr) ==
    /\ k = "autoregressive"
    /\ \/ e \in {"forward", "forward_decoder", "train_step", "val_step"} /\ cr > max_r
       \/ e \in {"train_step", "val_step"} /\ cr = 0

\* the values of (r, drop_n_heads) the invocation of a bound callable runs with
RanWith(b, cr, ch) == IF b.mode = "graph" THEN <<b.r, b.heads>> ELSE <<cr, ch>>

\* the callable after its invocation: a first successful call of a
\* tf.function traces it under the current values
AfterCall(b, k, e, cr, ch) ==
    IF b.mode = "untraced" /\ ~Raises(k, e, cr) THEN Graph(cr, ch) ELSE b

\* the binding table after entry point e was invoked
Invoked(bd, k, e, cr, ch) == [bd EXCEPT ![e] = AfterCall(bd[e], k, e, cr, ch)]

-----------------------------------------------------------------------------
(* set_constants *)

OptSet(arg, cur) == IF arg # None THEN arg[1] ELSE cur

\* AutoregressiveTransformer.set_constants
ArSetConstantsSkipsZero(dp, lrate, rf, dh) ==
    LET nz(a) == a # None /\ a[1] # 0
        s1 == IF nz(rf) THEN SetR(kind, debug, r, bound, rf[1])
              ELSE [r |-> r, bound |-> bound]
        s2 == IF nz(dh) THEN SetHeads(kind, debug, drop_n_heads, s1.bound, dh[1])
              ELSE [heads |-> drop_n_heads, bound |-> s1.bound]
    IN  /\ rate' = IF nz(dp) THEN dp[1] ELSE rate
        /\ lr' = IF nz(lrate) THEN lrate[1] ELSE lr
        /\ r' = s1.r
        /\ drop_n_heads' = s2.heads
        /\ bound' = s2.bound
ArSetConstants(dp, lrate, rf, dh) ==
    LET s1 == IF rf # None THEN SetR(kind, debug, r, bound, rf[1])
              ELSE [r |-> r, bound |-> bound]
        s2 == IF dh # None THEN SetHeads(kind, debug, drop_n_heads, s1.bound, dh[1])
              ELSE [heads |-> drop_n_heads, bound |-> s1.bound]
    IN  /\ rate' = OptSet(dp, rate)
        /\ lr' = OptSet(lrate, lr)
        /\ r' = s1.r
        /\ drop_n_heads' = s2.heads
        /\ bound' = s2.bound

\* ForwardTransformer.set_constants: decoder_prenet_dropout is accepted and
\* not used, reduction_factor falls into **kwargs
FwdSetConstants(dp, lrate, rf, dh) ==
    LET s2 == IF dh # None THEN SetHeads(kind, debug, drop_n_heads, bound, dh[1])
              ELSE [heads |-> drop_n_heads, bound |-> bound]
    IN  /\ lr' = OptSet(lrate, lr)
        /\ drop_n_heads' = s2.heads
        /\ bound' = s2.bound
        /\ UNCHANGED <<rate, r>>

\* the arguments of the latest set_constants call are kept in last_call
SetCall(dp, lrate, rf, dh) ==
    [ep |-> "set_constants", raised |-> FALSE, ran_r |-> NoAttr, ran_heads |-> NoAttr,
     r |-> NoAttr, heads |-> NoAttr, dp |-> dp, lr |-> lrate, rf |-> rf, dh |-> dh]

SetConstants ==
    /\ pc = "idle"
    /\ \E dp \in Opt(RateVals), lrate \in Opt(LrVals), rf \in Opt(RVals), dh \in Opt(HeadVals) :
          /\ IF kind = "autoregressive"
             THEN ArSetConstants(dp, lrate, rf, dh)
             ELSE FwdSetConstants(dp, lrate, rf, dh)
          /\ last_call' = SetCall(dp, lrate, rf, dh)
    /\ UNCHANGED <<configVars, kind, debug, predictVars, metricVars, forwardVars, stepVars>>

-----------------------------------------------------------------------------
(* Invocation of a bound entry point *)

CallRecord(e) ==
    LET ran == RanWith(bound[e], r, drop_n_heads)
    IN  [ep |-> e, raised |-> Raises(kind, e, ran[1]), ran_r |-> ran[1], ran_heads |-> ran[2],
         r |-> r, heads |-> drop_n_heads]

CallEntryPoint ==
    /\ pc = "idle"
    /\ \E e \in EntryPoints(kind) :
          /\ bound' = Invoked(bound, kind, e, r, drop_n_heads)
          /\ last_call' = CallRecord(e)
    /\ UNCHANGED <<configVars, kind, debug, r, drop_n_heads, rate, lr, predictVars, metricVars, forwardVars, stepVars>>

-----------------------------------------------------------------------------
(* The instance after construction and _compile *)

InitModel(k) ==
    /\ kind = k
    /\ debug \in BOOLEAN
    /\ r = IF k = "autoregressive" THEN max_r ELSE NoAttr
    /\ drop_n_heads = 0
    /\ rate = IF k = "autoregressive" THEN DefaultRate ELSE NoAttr
    /\ lr = InitLr
    /\ bound = [e \in EntryPoints(k) |-> ApplySignature(debug)]
    /\ last_call = NoCall

IdlePredict ==
    /\ pc = "idle"
    /\ max_length = 0
    /\ cap = 0
    /\ i = 0
    /\ output = <<>>
    /\ output_concat = <<>>
    /\ out_dict = <<>>
    /\ stop_hist = <<>>
    /\ broke = FALSE

-----------------------------------------------------------------------------
(* AutoregressiveTransformer.predict *)

\* the stop distributions the decoder may produce at the latest frame:
\* class 0 ahead, classes 0 and 2 level, class 2 (stop) ahead
StopDists == {<<2, 1, 0>>, <<1, 0, 1>>, <<0, 1, 2>>}

\* tf.argmax over the last axis: the first index (0-based) of the largest value
ArgMaxLast(d) ==
    (CHOOSE k \in 1..Len(d) :
        /\ \A j \in 1..Len(d) : d[j] <= d[k]
        /\ \A j \in 1..Len(d) : d[j] = d[k] => j <= k) - 1
ArgMax(d) ==
    (CHOOSE k \in 1..Len(d) :
        /\ \A j \in 1..Len(d) : d[j] <= d[k]
        /\ \A j \in 1..(k - 1) : d[j] < d[k]) - 1

\* python's a // b for a >= 0, b > 0
FloorDiv(a, b) == a \div b

\* range(int(max_length // self.r) + 1): the number of iterations
RangeLen(ml, cr) == FloorDiv(ml, cr) + 1

\* the start frame, and frame j of the decoder output of iteration n
StartFrame == <<0, 0>>
Frame(n, j) == <<n, j>>

\* _call_decoder: t target frames give t * r frames (reshape to (b, t * r, mel_channels))
CallDecoder(t, cr, n) == [j \in 1..(t * cr) |-> Frame(n, j)]

\* s[-n:] for 1 <= n
LastN(s, n) == SubSeq(s, IF Len(s) > n THEN Len(s) - n + 1 ELSE 1, Len(s))

\* an accumulator that takes only the last frame of the group
ConcatGroupLastOnly(acc, final_output, cr) == acc \o LastN(final_output, 1)

\* output_concat after an iteration: the whole group of r frames is appended
ConcatGroup(acc, final_output, cr) == acc \o LastN(final_output, cr)

\* output after an iteration: only the last frame of the group is fed back
FeedBack(out, final_output) == out \o LastN(final_output, 1)

\* lines 231-238: encode, set up both sequences, call the encoder, build the range
PredictCall ==
    /\ pc \in {"idle", "returned", "raised"}
    /\ kind = "autoregressive"
    /\ \E ml \in 0..MaxLength : max_length' = ml
    /\ output' = <<StartFrame>>
    /\ output_concat' = <<StartFrame>>
    /\ out_dict' = <<>>
    /\ stop_hist' = <<>>
    /\ broke' = FALSE
    /\ i' = 0
    /\ bound' = Invoked(bound, kind, "forward_encoder", r, drop_n_heads)
    /\ last_call' = CallRecord("forward_encoder")
    /\ IF r = 0
       THEN pc' = "raised" /\ cap' = 0
       ELSE pc' = "loop" /\ cap' = RangeLen(max_length', r)
    /\ UNCHANGED <<configVars, kind, debug, r, drop_n_heads, rate, lr, metricVars, forwardVars, stepVars>>

\* lines 239-252: one iteration of the loop
PredictIter ==
    /\ pc = "loop"
    /\ bound' = Invoked(bound, kind, "forward_decoder", r, drop_n_heads)
    /\ last_call' = CallRecord("forward_decoder")
    /\ IF last_call'.raised
       THEN /\ pc' = "raised"
            /\ UNCHANGED <<i, output, output_concat, out_dict, stop_hist, broke>>
       ELSE \E stop_pred \in StopDists :
            LET final_output == CallDecoder(Len(output), last_call'.ran_r, i + 1)
            IN  /\ output' = FeedBack(output, final_output)
                /\ output_concat' = ConcatGroup(output_concat, final_output, r)
                /\ out_dict' = [mel |-> Tail(output_concat')]
                /\ stop_hist' = Append(stop_hist, stop_pred)
                /\ IF ArgMax(stop_pred) = stop_prob_index
                   THEN /\ broke' = TRUE
                        /\ i' = i
                        /\ pc' = "done"
                   ELSE /\ broke' = FALSE
                        /\ i' = i + 1
                        /\ pc' = IF i + 1 < cap THEN "loop" ELSE "done"
    /\ UNCHANGED <<configVars, kind, debug, r, drop_n_heads, rate, lr, max_length, cap, metricVars, forwardVars, stepVars>>

\* line 253
PredictReturn ==
    /\ pc = "done"
    /\ pc' = "returned"
    /\ UNCHANGED <<configVars, modelVars, max_length, cap, i, output, output_concat, out_dict,
                   stop_hist, broke, metricVars, forwardVars, stepVars>>

-----------------------------------------------------------------------------
(* utils.metrics *)

RECURSIVE SumSeq(_)
SumSeq(s) == IF s = <<>> THEN 0 ELSE Head(s) + SumSeq(Tail(s))

Abs(x) == IF x < 0 THEN -x ELSE x

\* a score that was not computed
NoScore == <<0, 0>>

\* an attention row: a distribution over the keys, in halves
AttRows == {w \in [1..PhonSize -> 0..2] : SumSeq(w) = 2}

\* tf.reduce_max over the key axis
RowMax(row) == CHOOSE m \in {row[k] : k \in 1..Len(row)} : \A k \in 1..Len(row) : row[k] <= m

\* mask of attention_score: query position j (1-based) is valid iff j - 1 < mel_len
MelMask(a, ml) == [j \in 1..Len(a) |-> IF j - 1 < ml THEN 1 ELSE 0]

\* attention_jumps_score
AttentionJumpsScore(a, mel_mask, ml, jr) ==
    LET max_loc == [j \in 1..Len(a) |-> ArgMax(a[j])]
        max_loc_diff == [k \in 1..(Len(a) - 1) |-> Abs(max_loc[k + 1] - max_loc[k])]
        score == [k \in 1..(Len(a) - 1) |->
                    (IF max_loc_diff[k] >= 0 THEN 1 ELSE 0)
                    * (IF max_loc_diff[k] <= jr THEN 1 ELSE 0)]
        masked == [k \in 1..(Len(a) - 1) |-> score[k] * mel_mask[k + 1]]
    IN  <<SumSeq(masked), ml - 1>>

\* attention_peak_score: reduce_mean runs over the whole query axis
AttentionPeakScore(a, mel_mask) ==
    LET max_loc == [j \in 1..Len(a) |-> RowMax(a[j])]
    IN  <<SumSeq([j \in 1..Len(a) |-> max_loc[j] * mel_mask[j]]), Len(a)>>

\* weight_mask that leaves the padded cells their distance
WeightMaskUnpadded(ml, pl, rows, cols) ==
    [j \in 1..rows |-> [k \in 1..cols |-> Abs((k - 1) * ml - (j - 1) * pl)]]

\* weight_mask: |i / phon_len - j / mel_len| inside the valid region (0-based
\* i, j), zero outside; each cell as a numerator over phon_len * mel_len
WeightMask(ml, pl, rows, cols) ==
    [j \in 1..rows |-> [k \in 1..cols |->
        IF j <= ml /\ k <= pl THEN Abs((k - 1) * ml - (j - 1) * pl) ELSE 0]]

\* diagonality_measure
DiagonalityMeasure(a, ml, pl) ==
    LET diag_mask == WeightMask(ml, pl, Len(a), PhonSize)
    IN  <<SumSeq([j \in 1..Len(a) |->
                    SumSeq([k \in 1..PhonSize |-> a[j][k] * diag_mask[j][k]])]),
          pl * ml>>

IdleMetrics ==
    /\ att = <<>>
    /\ mel_len = 0
    /\ phon_len = 0
    /\ score_r = 0
    /\ mpc = "none"
    /\ loc_score = NoScore
    /\ peak_score = NoScore
    /\ diag_score = NoScore
    /\ peak_unpadded = NoScore
    /\ diag_before = NoScore
    /\ moved = <<>>

\* attention_score
AttentionScore ==
    /\ mpc = "given"
    /\ LET mask == MelMask(att, mel_len)
       IN  /\ loc_score' = AttentionJumpsScore(att, mask, mel_len, score_r)
           /\ peak_score' = AttentionPeakScore(att, mask)
           /\ diag_score' = DiagonalityMeasure(att, mel_len, phon_len)
    /\ mpc' = "scored"
    /\ UNCHANGED <<configVars, att, mel_len, phon_len, score_r, peak_unpadded, diag_before, moved,
                   modelVars, predictVars, forwardVars, stepVars>>

\* the caller pads the same attention to a longer query axis (a batch with a
\* longer example): one more row, the valid lengths as before
PadQuery ==
    /\ mpc = "scored"
    /\ Len(att) < MaxMel
    /\ \E row \in AttRows : att' = Append(att, row)
    /\ peak_unpadded' = IF peak_unpadded = NoScore THEN peak_score ELSE peak_unpadded
    /\ mpc' = "given"
    /\ loc_score' = NoScore
    /\ peak_score' = NoScore
    /\ diag_score' = NoScore
    /\ UNCHANGED <<configVars, mel_len, phon_len, score_r, diag_before, moved, modelVars, predictVars,
                   forwardVars, stepVars>>

\* the caller scores an attention that differs from the scored one by one
\* half of a valid row's mass, moved from one valid key to another
MoveMass ==
    /\ mpc = "scored"
    /\ moved = <<>>
    /\ \E j \in 1..mel_len, k1 \in 1..phon_len, k2 \in 1..phon_len :
          /\ k1 # k2
          /\ att[j][k1] > 0
          /\ att' = [att EXCEPT ![j] = [@ EXCEPT ![k1] = @ - 1, ![k2] = @ + 1]]
          /\ moved' = <<j, k1, k2>>
    /\ diag_before' = diag_score
    /\ mpc' = "given"
    /\ loc_score' = NoScore
    /\ peak_score' = NoScore
    /\ diag_score' = NoScore
    /\ UNCHANGED <<configVars, mel_len, phon_len, score_r, peak_unpadded, modelVars, predictVars,
                   forwardVars, stepVars>>

-----------------------------------------------------------------------------
(* ForwardTransformer.call *)

Min(a, b) == IF a < b THEN a ELSE b

\* float('inf') as a duration
Inf == 1000

\* tf.math.round of a fixed-point number: to the nearest integer, a half to
\* the even one
Round(d) ==
    LET q == d \div Unit
        rem == d % Unit
    IN  IF 2 * rem < Unit THEN q
        ELSE IF 2 * rem > Unit THEN q + 1
        ELSE IF q % 2 = 0 THEN q ELSE q + 1

\* s repeated n times
RECURSIVE Repeat(_, _)
Repeat(v, n) == IF n <= 0 THEN <<>> ELSE <<v>> \o Repeat(v, n - 1)

\* the Expand layer: token i gives round(duration_i) consecutive copies of
\* its encoding, in token order
RECURSIVE ExpandFrom(_, _, _)
ExpandFrom(x, durs, k) ==
    IF k > Len(x) THEN <<>>
    ELSE Repeat(x[k], Round(durs[k])) \o ExpandFrom(x, durs, k + 1)
Expand(x, durs) == ExpandFrom(x, durs, 1)

\* lines 490-497: the durations the expansion uses
UseDurationsPredicted(target, durs, scalar, mask) ==
    LET base == [k \in 1..Len(durs) |-> (durs[k] * scalar[1]) \div scalar[2]]
    IN  IF mask # None
        THEN [k \in 1..Len(base) |-> Min(base[k], mask[1][k])]
        ELSE base
UseDurationsUncapped(target, durs, scalar, mask) ==
    IF target # None
    THEN target[1]
    ELSE [k \in 1..Len(durs) |-> (durs[k] * scalar[1]) \div scalar[2]]
UseDurations(target, durs, scalar, mask) ==
    LET base == IF target # None
                THEN target[1]
                ELSE [k \in 1..Len(durs) |-> (durs[k] * scalar[1]) \div scalar[2]]
    IN  IF mask # None
        THEN [k \in 1..Len(base) |-> Min(base[k], mask[1][k])]
        ELSE base

\* the encoder output: one encoding per token, named by the token's position
Encoded(n) == [k \in 1..n |-> k]

\* call, lines 490-498 (the decoder keeps the length of the expansion)
Call ==
    /\ fpc = "args"
    /\ use_durations' = UseDurations(target_durations, durations, durations_scalar,
                                     durations_mask)
    /\ mels' = Expand(Encoded(x_len), use_durations')
    /\ fpc' = "called"
    /\ UNCHANGED <<configVars, x_len, target_durations, durations, durations_scalar, durations_mask,
                   inp, phoneme_max_duration, any_idx, modelVars, predictVars, metricVars,
                   stepVars>>

\* the phoneme symbols of the vocabulary that matter: the space and two others
Symbols == {" ", "a", "b"}

\* the default mapping of _make_max_duration_mask: three frames for a space
DefaultMaxDuration == <<<<" ", 3 * Unit>>>>

\* self.text_pipeline.tokenizer(key)[0]: the index of the symbol of a
\* one-symbol key; for the key 'any', of whatever the tokenizer yields first
TokenIdx(key, any) == IF key = "any" THEN any ELSE key

\* lines 557-559: the items of the mapping in order, each overwriting the mask
\* at the tokens of its first symbol
RECURSIVE ApplyItems(_, _, _, _, _)
ApplyItems(new_mask, text, items, k, any) ==
    IF k > Len(items) THEN new_mask
    ELSE ApplyItems([t \in 1..Len(text) |->
                        IF text[t] = TokenIdx(items[k][1], any) THEN items[k][2]
                        ELSE new_mask[t]],
                    text, items, k + 1, any)

\* _make_max_duration_mask
MakeMaxDurationMask(encoded_text, pmd, any) ==
    LET items == IF pmd = None THEN DefaultMaxDuration ELSE pmd[1]
        any_items == {n \in 1..Len(items) : items[n][1] = "any"}
        new_mask == [t \in 1..Len(encoded_text) |->
                        IF any_items # {}
                        THEN items[CHOOSE n \in any_items : TRUE][2]
                        ELSE Inf]
    IN  ApplyItems(new_mask, encoded_text, items, 1, any)

\* ForwardTransformer.predict (speed_regulator = 1): the mask only when a
\* mapping is given, then forward_masked or forward
FwdPredict ==
    /\ fpc = "text"
    /\ durations_scalar' = <<1, 1>>
    /\ durations_mask' = IF phoneme_max_duration # None
                          THEN Some(MakeMaxDurationMask(inp, phoneme_max_duration, any_idx))
                          ELSE None
    /\ LET e == IF phoneme_max_duration # None THEN "forward_masked" ELSE "forward"
       IN  /\ bound' = Invoked(bound, kind, e, r, drop_n_heads)
           /\ last_call' = CallRecord(e)
    /\ use_durations' = UseDurations(None, durations, durations_scalar', durations_mask')
    /\ mels' = Expand(Encoded(x_len), use_durations')
    /\ fpc' = "called"
    /\ UNCHANGED <<configVars, kind, debug, r, drop_n_heads, rate, lr, x_len, target_durations,
                   durations, inp, phoneme_max_duration, any_idx, predictVars, metricVars,
                   stepVars>>

NoText ==
    /\ inp = <<>>
    /\ phoneme_max_duration = None
    /\ any_idx = "none"

IdleForward ==
    /\ fpc = "none"
    /\ x_len = 0
    /\ target_durations = None
    /\ durations = <<>>
    /\ durations_scalar = <<1, 1>>
    /\ durations_mask = None
    /\ use_durations = <<>>
    /\ mels = <<>>
    /\ NoText

-----------------------------------------------------------------------------
(* train_step and val_step *)

\* self.loss_weights = [1., 1., 1.] (both classes)
LossWeights == <<1, 1, 1>>

\* the loss functions given to compile
ArLossFunctions == <<"masked_mean_absolute_error", "new_scaled_crossentropy",
                     "masked_mean_absolute_error">>
FwdLossFunctions == <<"masked_mean_absolute_error", "masked_mean_absolute_error">>

\* The value a loss function returns for a target and a prediction of the
\* batch: a number the batch and the weights determine, different for
\* different functions, targets and predictions.
TensorCode(name) ==
    CASE name = "tar_real" -> 0
      [] name = "tar_stop_prob" -> 1
      [] name = "target_sequence" -> 2
      [] name = "target_durations" -> 3
      [] name = "target_pitch" -> 4
      [] name = "final_output" -> 0
      [] name = "stop_prob" -> 1
      [] name = "mel_linear" -> 2
      [] name = "mel" -> 3
      [] name = "duration" -> 4
      [] name = "pitch" -> 5
FunctionCode(fn) == IF fn = "masked_mean_absolute_error" THEN 0 ELSE 1
LossValue(fn, target, pred, w) ==
    w * (1 + FunctionCode(fn) + 2 * TensorCode(target) + 10 * TensorCode(pred))

\* utils.losses.weighted_sum_losses: every loss function on its target and
\* prediction, and the sum of the values weighted by the coefficients
RECURSIVE WeightedSumFrom(_, _, _)
WeightedSumFrom(vals, coeffs, k) ==
    IF k > Len(vals) THEN 0 ELSE coeffs[k] * vals[k] + WeightedSumFrom(vals, coeffs, k + 1)
WeightedSumLosses(targets, pred, loss_functions, coeffs, w) ==
    LET loss_vals == [k \in 1..Len(loss_functions) |->
                        LossValue(loss_functions[k], targets[k], pred[k], w)]
    IN  [loss |-> WeightedSumFrom(loss_vals, coeffs, 1), loss_vals |-> loss_vals]

\* a strided slice that drops the incomplete last stride
StridedLenFloor(n, step) == n \div step

\* s[0::step] of a sequence of n frames: its length
StridedLen(n, step) == (n + step - 1) \div step

\* _gta_forward, line 190: the breakdown of the loss
ArLossesSwapped(loss_vals) ==
    [output |-> loss_vals[3], stop_prob |-> loss_vals[2], mel_linear |-> loss_vals[1]]
ArLosses(loss_vals) ==
    [output |-> loss_vals[1], stop_prob |-> loss_vals[2], mel_linear |-> loss_vals[3]]

\* _gta_forward for a target of n frames under reduction factor cr
GtaForward(n, cr, w) ==
    LET tar_inp == n - 1
        tar_real == n - 1
        tar_stop_prob == n - 1
        n_mel == tar_inp
        tar_mel == StridedLen(tar_inp, cr)
        decoded == tar_mel * cr
        sliced == Min(decoded, n_mel)
        targets == <<"tar_real", "tar_stop_prob", "tar_real">>
        preds == <<"final_output", "stop_prob", "mel_linear">>
        ws == WeightedSumLosses(targets, preds, ArLossFunctions, LossWeights, w)
    IN  [loss |-> <<ws.loss, 1>>,
         losses |-> ArLosses(ws.loss_vals),
         reduced_target |-> tar_mel,
         reduced_idx |-> [k \in 1..tar_mel |-> (k - 1) * cr],
         decoded |-> decoded,
         mel_len |-> n_mel,
         pred_len |-> <<sliced, sliced, sliced>>,
         target_len |-> <<tar_real, tar_stop_prob, tar_real>>,
         n_targets |-> Len(targets), n_preds |-> Len(preds),
         n_losses |-> Len(ArLossFunctions), n_weights |-> Len(LossWeights)]

\* an optimizer that updates in every step, the validation step included
ApplyGradientsAlways(fn, n) == n + 1

\* self.optimizer.apply_gradients, which only _train_step calls: the count n
\* of updates after the step fn
ApplyGradients(fn, n) == IF fn = "train_step" THEN n + 1 ELSE n

\* AutoregressiveTransformer._train_step and _val_step
ArStep(fn) ==
    /\ spc = "batch"
    /\ kind = "autoregressive"
    /\ bound' = Invoked(bound, kind, fn, r, drop_n_heads)
    /\ last_call' = CallRecord(fn)
    /\ step_fn' = fn
    /\ IF last_call'.raised
       THEN /\ spc' = "raised"
            /\ UNCHANGED <<model_out, iterations, weights_version>>
       ELSE /\ spc' = "stepped"
            /\ model_out' = GtaForward(tar_len, last_call'.ran_r, world)
            /\ iterations' = ApplyGradients(fn, iterations)
            /\ weights_version' = ApplyGradients(fn, weights_version)
    /\ UNCHANGED <<configVars, kind, debug, r, drop_n_heads, rate, lr, world, tar_len, target_pitch, pitch,
                   predictVars, metricVars, forwardVars>>

ArTrainStep == ArStep("train_step")
ArValStep == ArStep("val_step")

\* tf.linspace(1., 2., num), squared: element k of num, <<numerator, denominator>>
TsWeight(num) ==
    [k \in 1..num |->
        IF num = 1 THEN <<1, 1>>
        ELSE <<((num - 1) + (k - 1)) * ((num - 1) + (k - 1)), (num - 1) * (num - 1)>>]

\* lines 411-415: the masked, weighted mean of the absolute pitch error;
\* target_pitch has a trailing axis of length 1 (expand_dims), and ts_weight
\* takes its length from that axis
PitchError(pred_pitch, tgt_pitch) ==
    LET num == Len(tgt_pitch[1])
        ts_weight == TsWeight(num)
        error_mask == [t \in 1..Len(tgt_pitch) |-> [c \in 1..num |->
                          IF tgt_pitch[t][c] = 0 THEN 0 ELSE 1]]
        abs_err == [t \in 1..Len(tgt_pitch) |-> [c \in 1..num |->
                          Abs(pred_pitch[t][c] - tgt_pitch[t][c]) * error_mask[t][c]]]
    IN  <<SumSeq([t \in 1..Len(tgt_pitch) |->
                    SumSeq([c \in 1..num |-> abs_err[t][c] * ts_weight[c][1]])]),
          Len(tgt_pitch) * num * ts_weight[1][2]>>

\* lines 418 and 458: the breakdown of the loss
FwdLosses(loss_vals, pitch_error) ==
    [mel |-> loss_vals[1], duration |-> loss_vals[2], pitch |-> pitch_error]

\* ForwardTransformer._train_step and _val_step
FwdStep(fn) ==
    /\ spc = "batch"
    /\ kind = "forward"
    /\ bound' = Invoked(bound, kind, fn, r, drop_n_heads)
    /\ last_call' = CallRecord(fn)
    /\ step_fn' = fn
    /\ spc' = "stepped"
    /\ use_durations' = UseDurations(target_durations, durations, <<1, 1>>, None)
    /\ mels' = Expand(Encoded(x_len), use_durations')
    /\ fpc' = "called"
    /\ LET n_mel == SumSeq([k \in 1..x_len |-> Round(target_durations[1][k])])
           targets == <<"target_sequence", "target_durations">>
           preds == <<"mel", "duration">>
           ws == WeightedSumLosses(targets, preds, FwdLossFunctions, LossWeights, world)
           pitch_error == PitchError(pitch, target_pitch)
           new_loss == <<(ws.loss_vals[1] + ws.loss_vals[2]) * pitch_error[2] + pitch_error[1],
                         pitch_error[2]>>
       IN  model_out' = [loss |-> new_loss,
                         losses |-> FwdLosses(ws.loss_vals, pitch_error),
                         composed |-> ws.loss,
                         mel_len |-> n_mel,
                         pred_len |-> <<Min(Len(mels'), n_mel), x_len>>,
                         target_len |-> <<n_mel, x_len>>,
                         n_targets |-> Len(targets), n_preds |-> Len(preds),
                         n_losses |-> Len(FwdLossFunctions), n_weights |-> Len(LossWeights)]
    /\ iterations' = ApplyGradients(fn, iterations)
    /\ weights_version' = ApplyGradients(fn, weights_version)
    /\ UNCHANGED <<configVars, kind, debug, r, drop_n_heads, rate, lr, world, tar_len, target_pitch, pitch,
                   x_len, target_durations, durations, durations_scalar, durations_mask,
                   inp, phoneme_max_duration, any_idx, predictVars, metricVars>>

FwdTrainStep == FwdStep("train_step")
FwdValStep == FwdStep("val_step")

NoOut == [loss |-> NoScore]

IdleStep ==
    /\ spc = "none"
    /\ step_fn = "none"
    /\ world = 0
    /\ tar_len = 0
    /\ target_pitch = <<>>
    /\ pitch = <<>>
    /\ model_out = NoOut
    /\ iterations = 0
    /\ weights_version = 0

-----------------------------------------------------------------------------
(* utils.config_loader.ConfigLoader *)

\* key_list of _check_config
key_list ==
    <<"mel_channels", "decoder_model_dimension", "encoder_model_dimension",
      "decoder_num_heads", "encoder_num_heads", "encoder_feed_forward_dimension",
      "decoder_feed_forward_dimension", "decoder_prenet_dimension",
      "encoder_max_position_encoding", "decoder_max_position_encoding",
      "postnet_conv_filters", "postnet_conv_layers", "postnet_kernel_size",
      "dropout_rate", "debug", "mel_start_value", "mel_end_value">>

\* the keys __init__ subscripts self.config with, in order
InitKeys == <<"learning_rate_schedule", "reduction_factor_schedule">>

\* the key __init__ reads with config.get and a default
OptionalKey == "stop_loss_scaling"

\* the keys get_model subscripts self.config with, in the order of its arguments
GetModelKeys ==
    <<"mel_channels", "encoder_model_dimension", "decoder_model_dimension",
      "encoder_num_heads", "decoder_num_heads", "encoder_feed_forward_dimension",
      "decoder_feed_forward_dimension", "encoder_max_position_encoding",
      "decoder_max_position_encoding", "encoder_dense_blocks", "decoder_dense_blocks",
      "decoder_prenet_dimension", "postnet_conv_filters", "postnet_conv_layers",
      "postnet_kernel_size", "dropout_rate", "mel_start_value", "mel_end_value",
      "phoneme_language", "debug">>

\* the keys get_forward_model subscripts self.config with, in order
GetForwardModelKeys ==
    <<"model_dimension", "dropout_rate", "decoder_num_heads", "encoder_num_heads",
      "encoder_max_position_encoding", "decoder_max_position_encoding",
      "encoder_feed_forward_dimension", "decoder_feed_forward_dimension", "mel_channels",
      "encoder_dense_blocks", "decoder_dense_blocks", "phoneme_language", "debug">>

Range(f) == {f[n] : n \in 1..Len(f)}

AllKeys ==
    Range(key_list) \cup Range(InitKeys) \cup {OptionalKey} \cup Range(GetModelKeys)
        \cup Range(GetForwardModelKeys)

NoError == [type |-> "none", keys |-> <<>>]

\* [key for key in keys if key not in cfg]
Missing(keys, cfg) == LET Absent(k) == k \notin cfg IN SelectSeq(keys, Absent)

\* the keys read by subscripting with each of keys in order, up to the first
\* KeyError
ReadUpTo(keys, cfg) == {keys[n] : n \in {m \in 1..Len(keys) : \A l \in 1..m : keys[l] \in cfg}}

\* _check_config: the missing keys of key_list
CheckConfig(cfg) == Missing(key_list, cfg)

IdleConfig ==
    /\ config = {}
    /\ cpc = "none"
    /\ error = NoError
    /\ values_read = {}
    /\ built_model = "none"

\* ConfigLoader.__init__ on a dictionary
Construct ==
    /\ cpc = "given"
    /\ LET missing == CheckConfig(config)
           absent == Missing(InitKeys, config)
       IN  IF missing # <<>>
           THEN /\ cpc' = "failed"
                /\ error' = [type |-> "AssertionError", keys |-> missing]
                /\ values_read' = {}
           ELSE IF absent # <<>>
           THEN /\ cpc' = "failed"
                /\ error' = [type |-> "KeyError", keys |-> <<Head(absent)>>]
                /\ values_read' = ReadUpTo(InitKeys, config)
           ELSE /\ cpc' = "constructed"
                /\ error' = NoError
                /\ values_read' = Range(InitKeys) \cup ({OptionalKey} \cap config)
    /\ UNCHANGED <<config, built_model, modelVars, predictVars, metricVars, forwardVars, stepVars>>

\* a builder that subscripts self.config with keys and returns a model of class k
Build(keys, k) ==
    /\ cpc = "constructed"
    /\ LET absent == Missing(keys, config)
       IN  IF absent # <<>>
           THEN /\ cpc' = "build_failed"
                /\ error' = [type |-> "KeyError", keys |-> <<Head(absent)>>]
                /\ built_model' = "none"
           ELSE /\ cpc' = "built"
                /\ error' = NoError
                /\ built_model' = k
    /\ values_read' = values_read \cup ReadUpTo(keys, config)
    /\ UNCHANGED <<config, modelVars, predictVars, metricVars, forwardVars, stepVars>>

\* get_model
GetModel == Build(GetModelKeys, "autoregressive")

\* get_forward_model
GetForwardModel == Build(GetForwardModelKeys, "forward")

vars == <<configVars, modelVars, predictVars, metricVars, forwardVars, stepVars>>

\* ---- the life of an instance: set_constants and calls of the entry points
Init ==
    /\ \E k \in {"autoregressive", "forward"} : InitModel(k)
    /\ IdleConfig
    /\ IdlePredict
    /\ IdleMetrics
    /\ IdleForward
    /\ IdleStep

Next ==
    \/ SetConstants
    \/ CallEntryPoint

Spec == Init /\ [][Next]_vars

\* ---- predict on an autoregressive instance whose reduction factor was set
\* to any value by set_constants
InitPredict ==
    /\ InitModel("autoregressive")
    /\ IdleConfig
    /\ IdlePredict
    /\ IdleMetrics
    /\ IdleForward
    /\ IdleStep

SetReductionFactor ==
    /\ pc = "idle"
    /\ \E rf \in RVals :
          /\ ArSetConstants(None, None, Some(rf), None)
          /\ last_call' = SetCall(None, None, Some(rf), None)
    /\ UNCHANGED <<configVars, kind, debug, predictVars, metricVars, forwardVars, stepVars>>

NextPredict ==
    \/ SetReductionFactor
    \/ PredictCall
    \/ PredictIter
    \/ PredictReturn

SpecPredict == InitPredict /\ [][NextPredict]_vars

\* ---- any sequence of set_constants(reduction_factor, drop_n_heads), entry
\* point calls and short predict runs
SetRAndHeads ==
    /\ SetConstants
    /\ last_call'.dp = None
    /\ last_call'.lr = None

ShortPredictCall ==
    /\ PredictCall
    /\ max_length' <= ShortLength

NextCalls ==
    \/ SetRAndHeads
    \/ CallEntryPoint
    \/ ShortPredictCall
    \/ PredictIter
    \/ PredictReturn

SpecCalls == Init /\ [][NextCalls]_vars

\* ---- attention_score on any attention tensor with valid lengths inside it
FixedModel ==
    /\ kind = "autoregressive"
    /\ debug = FALSE
    /\ r = max_r
    /\ drop_n_heads = 0
    /\ rate = DefaultRate
    /\ lr = InitLr
    /\ bound = [e \in ArEntryPoints |-> Untraced]
    /\ last_call = NoCall

InitMetrics ==
    /\ FixedModel
    /\ IdleConfig
    /\ IdlePredict
    /\ IdleForward
    /\ IdleStep
    /\ \E n \in 2..MaxMel : att \in [1..n -> AttRows]
    /\ mel_len \in 1..Len(att)
    /\ phon_len \in 1..PhonSize
    /\ score_r \in 0..MaxJump
    /\ mpc = "given"
    /\ loc_score = NoScore
    /\ peak_score = NoScore
    /\ diag_score = NoScore
    /\ peak_unpadded = NoScore
    /\ diag_before = NoScore
    /\ moved = <<>>

NextMetrics ==
    \/ AttentionScore
    \/ PadQuery

SpecMetrics == InitMetrics /\ [][NextMetrics]_vars

\* ---- attention_score on an attention tensor and on the same tensor with
\* part of one row's mass moved to another key
InitDiag ==
    /\ InitMetrics
    /\ score_r = 0

NextDiag ==
    \/ AttentionScore
    \/ MoveMass

SpecDiag == InitDiag /\ [][NextDiag]_vars

\* ---- a ConfigLoader constructed from a dictionary that lacks some keys, and
\* its builders
InitConfig ==
    /\ FixedModel
    /\ IdlePredict
    /\ IdleMetrics
    /\ IdleForward
    /\ IdleStep
    /\ \E m \in [1..MaxMissing -> AllKeys \cup {"-"}] : config = AllKeys \ Range(m)
    /\ cpc = "given"
    /\ error = NoError
    /\ values_read = {}
    /\ built_model = "none"

NextConfig ==
    \/ Construct
    \/ GetModel
    \/ GetForwardModel

SpecConfig == InitConfig /\ [][NextConfig]_vars

\* ---- ForwardTransformer.call as its four callers invoke it: _train_step and
\* _val_step (target durations in whole frames, no mask), _forward (predicted
\* durations and a scalar) and _forward_masked (a mask too)
FixedForwardModel ==
    /\ kind = "forward"
    /\ debug = FALSE
    /\ r = NoAttr
    /\ drop_n_heads = 0
    /\ rate = NoAttr
    /\ lr = InitLr
    /\ bound = [e \in FwdEntryPoints |-> Untraced]
    /\ last_call = NoCall

\* durations dur_pred may give (its last activation is relu): halves of a frame
PredVals == {0, 2, 4, 6}
\* the predictions drawn for n tokens: every combination for a short
\* sequence, the same value at every token for a longer one
PredSeqs(n) ==
    IF n <= MaxPredTokens THEN [1..n -> PredVals]
    ELSE {[k \in 1..n |-> v] : v \in PredVals}
\* 1 / speed_regulator for speed_regulator 2, 1 and 1/2
Scalars == {<<1, 2>>, <<1, 1>>, <<2, 1>>}
\* a maximum duration: one frame, three frames, or none
MaskVals == {Unit, 3 * Unit, Inf}

InitForward ==
    /\ FixedForwardModel
    /\ IdleConfig
    /\ IdlePredict
    /\ IdleMetrics
    /\ IdleStep
    /\ fpc = "args"
    /\ x_len \in 1..MaxTokens
    /\ \/ /\ target_durations \in {Some(t) : t \in [1..x_len -> {Unit * d : d \in 0..MaxDur}]}
          /\ durations \in {[k \in 1..x_len |-> v] : v \in PredVals}
          /\ durations_scalar = <<1, 1>>
          /\ durations_mask = None
       \/ /\ x_len <= MaxPredTokens
          /\ target_durations = None
          /\ durations \in PredSeqs(x_len)
          /\ durations_scalar \in Scalars
          /\ durations_mask \in Opt([1..x_len -> MaskVals])
    /\ use_durations = <<>>
    /\ mels = <<>>
    /\ NoText

NextForward == Call

SpecForward == InitForward /\ [][NextForward]_vars

\* ---- ForwardTransformer.predict on a short text, with and without a mapping
\* of maximum durations
MapKeys == {" ", "a", "any"}
CapVals == {Unit, 2 * Unit}
\* the mappings: every order of distinct keys, every cap
Mappings ==
    UNION {{m \in [1..n -> MapKeys \X CapVals] :
              \A a, b \in 1..n : a # b => m[a][1] # m[b][1]} : n \in 0..Cardinality(MapKeys)}

InitFwdPredict ==
    /\ FixedForwardModel
    /\ IdleConfig
    /\ IdlePredict
    /\ IdleMetrics
    /\ IdleStep
    /\ fpc = "text"
    /\ x_len \in 1..MaxText
    /\ inp \in [1..x_len -> Symbols]
    /\ phoneme_max_duration \in Opt(Mappings)
    /\ any_idx \in Symbols \cup {"other"}
    /\ target_durations = None
    /\ durations \in [1..x_len -> {Unit, 4 * Unit}]
    /\ durations_scalar = <<1, 1>>
    /\ durations_mask = None
    /\ use_durations = <<>>
    /\ mels = <<>>

NextFwdPredict == FwdPredict

SpecFwdPredict == InitFwdPredict /\ [][NextFwdPredict]_vars

\* ---- one train_step or val_step on a batch, by a compiled instance of
\* either class that took any number of optimizer steps before
PitchVals == {0, 1, 3}
PitchPredVals == {0, 1}

InitStep ==
    /\ debug = FALSE
    /\ drop_n_heads = 0
    /\ lr = InitLr
    /\ last_call = NoCall
    /\ IdleConfig
    /\ IdlePredict
    /\ IdleMetrics
    /\ spc = "batch"
    /\ step_fn = "none"
    /\ world \in 1..MaxWorld
    /\ model_out = NoOut
    /\ iterations \in 0..MaxSteps
    /\ weights_version = iterations
    /\ \/ /\ kind = "autoregressive"
          /\ r \in RVals
          /\ rate = DefaultRate
          /\ bound = [e \in ArEntryPoints |-> Untraced]
          /\ tar_len \in 2..MaxTar
          /\ target_pitch = <<>>
          /\ pitch = <<>>
          /\ IdleForward
       \/ /\ kind = "forward"
          /\ r = NoAttr
          /\ rate = NoAttr
          /\ bound = [e \in FwdEntryPoints |-> Untraced]
          /\ tar_len = 0
          /\ x_len \in 1..MaxStepTokens
          /\ target_pitch \in [1..x_len -> {<<v>> : v \in PitchVals}]
          /\ pitch \in [1..x_len -> {<<v>> : v \in PitchPredVals}]
          /\ target_durations \in {Some(t) : t \in [1..x_len -> {0, Unit, 2 * Unit}]}
          /\ durations \in {[k \in 1..x_len |-> v] : v \in {0, Unit}}
          /\ fpc = "args"
          /\ durations_scalar = <<1, 1>>
          /\ durations_mask = None
          /\ use_durations = <<>>
          /\ mels = <<>>
          /\ NoText

NextStep ==
    \/ ArTrainStep
    \/ ArValStep
    \/ FwdTrainStep
    \/ FwdValStep

SpecStep == InitStep /\ [][NextStep]_vars

-----------------------------------------------------------------------------
(* Properties of predict *)

Finished == pc \in {"done", "returned"}

\* the number of loop iterations executed so far (each made one decoder call)
Iterations == Len(stop_hist)

CeilDiv(a, b) == (a + b - 1) \div b

\* a stop distribution whose largest value is at the stop class alone or
\* first: classes 0 and 1 are strictly below class 2
PredictsStop(d) == d[3] > d[1] /\ d[3] > d[2]

\* C1: predict returns a mel sequence of at most max_length frames (the
\* start frame excluded), for every r >= 1 and every max_length >= 0.
C1_AtMostMaxLengthFrames ==
    (Finished /\ r >= 1) => Len(out_dict.mel) <= max_length

\* C2: predict executes at most ceil(max_length / r) decoder iterations; with
\* r = 3 and max_length = 9 the loop body runs at most 3 times.
C2_AtMostCeilIterations ==
    (pc \in {"loop", "done", "returned"} /\ r >= 1) =>
        /\ Iterations <= CeilDiv(max_length, r)
        /\ (r = 3 /\ max_length = 9) => Iterations <= 3

C16_LengthsAfterIterations ==
    (pc \in {"loop", "done", "returned"} /\ Iterations >= 1) =>
        /\ Len(output) = 1 + Iterations
        /\ Len(output_concat) = 1 + Iterations * r
        /\ output[1] = StartFrame /\ output_concat[1] = StartFrame
        /\ \A k \in 1..Iterations : output[1 + k] = output_concat[1 + k * r]
        /\ Len(out_dict.mel) = Iterations * r
        /\ Len(out_dict.mel) > 0
        /\ Len(out_dict.mel) % r = 0
        /\ out_dict.mel = Tail(output_concat)

\* predict with r = 2 returned after an early stop in its second iteration
C16_Witness ==
    /\ pc = "returned"
    /\ broke
    /\ r = 2
    /\ Iterations = 2
    /\ Iterations < cap
    /\ Len(output) = 3
    /\ Len(out_dict.mel) = 4

-----------------------------------------------------------------------------
(* Properties of the attention scores *)

Scored == mpc = "scored"

\* equality of two fractions with positive denominators
RatEq(p, q) == p[1] * q[2] = q[1] * p[2]

\* the key index (0-based) a query row peaks at
PeakKey(j) == ArgMax(att[j])

\* the consecutive query steps k -> k + 1 inside the valid length
ValidSteps == {k \in 1..(Len(att) - 1) : k + 1 <= mel_len}

\* the valid steps whose peak moves forward by between 0 and r keys
ForwardSteps == {k \in ValidSteps : 0 <= PeakKey(k + 1) - PeakKey(k)
                                     /\ PeakKey(k + 1) - PeakKey(k) <= score_r}

\* C8: for mel_len >= 2 the jump score lies in [0, 1] and equals the number
\* of valid consecutive query steps with 0 <= argmax difference <= r over
\* mel_len - 1; a path that moves forward by 0..r keys at every step scores
\* exactly 1, and padded query steps never count.
C8_JumpScoreCountsForwardSteps ==
    (Scored /\ mel_len >= 2) =>
        /\ loc_score[2] = mel_len - 1
        /\ 0 <= loc_score[1] /\ loc_score[1] <= loc_score[2]
        /\ loc_score[1] = Cardinality(ForwardSteps)
        /\ ForwardSteps = ValidSteps => loc_score[1] = loc_score[2]

\* C9: a path whose peak key index strictly decreases at every consecutive
\* valid query step has jump score 0, for every r >= 0 and every backward
\* step size.
C9_BackwardPathScoresZero ==
    (Scored /\ mel_len >= 2 /\ \A k \in ValidSteps : PeakKey(k + 1) < PeakKey(k)) =>
        loc_score[1] = 0

\* C10: the peak score is the mean over the first mel_len rows of the row
\* maximum, and the same attention padded to a longer query axis gives the
\* same score.
C10_PeakScoreIsMeanOverValidRows ==
    Scored =>
        /\ RatEq(peak_score, <<SumSeq([j \in 1..mel_len |-> RowMax(att[j])]), mel_len>>)
        /\ peak_unpadded # NoScore => RatEq(peak_score, peak_unpadded)

\* the sum over the cells of the valid mel_len x phon_len region, row by row,
\* of attention times |i / phon_len - j / mel_len| (over phon_len * mel_len)
ValidRegionSum ==
    SumSeq([c \in 1..(mel_len * phon_len) |->
              LET j == (c - 1) \div phon_len
                  k == (c - 1) % phon_len
              IN  att[j + 1][k + 1] * Abs(k * mel_len - j * phon_len)])

\* every valid row is one-hot at the key of its own index
PeakedOnDiagonal == \A j \in 1..mel_len : att[j][j] = 2

\* the moved mass went to a valid key farther from the diagonal
MovedFarther == moved # <<>> /\ Abs(moved[3] - moved[1]) > Abs(moved[2] - moved[1])

-----------------------------------------------------------------------------
(* Properties of the forward model's expansion *)

Called == fpc = "called"

\* the frames of the expansion that are copies of token k
FramesOf(k) == {p \in 1..Len(mels) : mels[p] = k}

\* the durations the claim expands by: the targets when given, in frames
\* then, else the scaled and capped predictions
GivenDurations ==
    IF target_durations # None THEN target_durations[1] ELSE use_durations

\* C4: the expansion by per-token durations has sum_i round(duration_i)
\* frames; token i contributes round(duration_i) consecutive copies, in token
\* order, and a token of duration 0 contributes no frame.
C4_ExpansionFollowsDurations ==
    Called =>
        /\ Len(GivenDurations) = x_len
        /\ Len(mels) = SumSeq([k \in 1..x_len |-> Round(GivenDurations[k])])
        /\ \A k \in 1..x_len : Cardinality(FramesOf(k)) = Round(GivenDurations[k])
        /\ \A p \in 1..(Len(mels) - 1) : mels[p] <= mels[p + 1]
        /\ \A k \in 1..x_len : GivenDurations[k] = 0 => FramesOf(k) = {}
        /\ \A k \in 1..x_len : target_durations # None =>
              Cardinality(FramesOf(k)) * Unit = target_durations[1][k]

\* five tokens expanded by the durations [2, 0, 3, 1, 1]: seven frames, none
\* of them from the second token
C4_Witness ==
    /\ Called
    /\ target_durations = Some(<<2 * Unit, 0, 3 * Unit, Unit, Unit>>)
    /\ Len(mels) = 7
    /\ FramesOf(2) = {}
    /\ mels = <<1, 1, 3, 3, 3, 4, 5>>

\* speed_regulator, of which durations_scalar is the reciprocal
SpeedRegulator == <<durations_scalar[2], durations_scalar[1]>>

\* the duration of token k before the cap: the target when targets are given,
\* else the value v with v * speed_regulator = predicted duration
Uncapped(k, v) ==
    IF target_durations # None THEN v = target_durations[1][k]
    ELSE v * SpeedRegulator[1] = durations[k] * SpeedRegulator[2]

\* C14: token k expands by its target duration when targets are given, else
\* by its predicted duration over speed_regulator; with a mask, by the
\* minimum of that and mask_k, so never by more than its cap.
C14_UsedDurationIsTargetOrScaledAndCapped ==
    Called =>
        \A k \in 1..x_len :
            /\ durations_mask = None => Uncapped(k, use_durations[k])
            /\ durations_mask # None =>
                  /\ use_durations[k] <= durations_mask[1][k]
                  /\ Cardinality(FramesOf(k)) * Unit <= durations_mask[1][k]
                  /\ \/ Uncapped(k, use_durations[k])
                     \/ /\ use_durations[k] = durations_mask[1][k]
                        /\ \E v \in (durations_mask[1][k] + 1)..(MaxDur * Unit * 4) :
                              Uncapped(k, v)

\* a slowed-down prediction (speed_regulator 1/2) whose first token is cut
\* to its cap of one frame and whose second token stays under its cap
C14_Witness ==
    /\ Called
    /\ target_durations = None
    /\ durations_scalar = <<2, 1>>
    /\ durations_mask # None
    /\ x_len >= 2
    /\ durations[1] * 2 > durations_mask[1][1]
    /\ use_durations[1] = Unit
    /\ durations_mask[1][2] = 3 * Unit
    /\ use_durations[2] = 2 * Unit

\* the cap the mapping gives token t: its symbol's cap when the symbol is a
\* key, else the cap of 'any' when that is a key, else none
CapOf(items, t) ==
    LET own == {n \in 1..Len(items) : items[n][1] = inp[t] /\ items[n][1] # "any"}
        wild == {n \in 1..Len(items) : items[n][1] = "any"}
    IN  IF own # {} THEN items[CHOOSE n \in own : TRUE][2]
        ELSE IF wild # {} THEN items[CHOOSE n \in wild : TRUE][2]
        ELSE Inf

\* C15: predict caps token t by its symbol's cap when the symbol is a key of
\* the mapping, else by the 'any' cap when there is one, else not at all; the
\* 'any' key never acts as a symbol's cap; with no mapping given, spaces are
\* capped at three frames and nothing else is capped.
C15_MaskFollowsMapping ==
    Called =>
        LET items == IF phoneme_max_duration = None THEN DefaultMaxDuration
                     ELSE phoneme_max_duration[1]
        IN  \A t \in 1..x_len : use_durations[t] = Min(durations[t], CapOf(items, t))

-----------------------------------------------------------------------------
(* Properties of the training and validation steps *)

Stepped == spc = "stepped"

Mae(target, pred) == LossValue("masked_mean_absolute_error", target, pred, world)
Xent(target, pred) == LossValue("new_scaled_crossentropy", target, pred, world)

\* the mean over the tokens of the absolute pitch error, tokens of target
\* pitch 0 counted as no error
MeanPitchError ==
    <<SumSeq([t \in 1..x_len |->
                IF target_pitch[t][1] = 0 THEN 0 ELSE Abs(pitch[t][1] - target_pitch[t][1])]),
      x_len>>

ArTotalIsWeightedSum ==
    /\ model_out.loss = <<LossWeights[1] * Mae("tar_real", "final_output")
                          + LossWeights[2] * Xent("tar_stop_prob", "stop_prob")
                          + LossWeights[3] * Mae("tar_real", "mel_linear"), 1>>
    /\ model_out.losses.output = Mae("tar_real", "final_output")
    /\ model_out.losses.stop_prob = Xent("tar_stop_prob", "stop_prob")
    /\ model_out.losses.mel_linear = Mae("tar_real", "mel_linear")

FwdBreakdown ==
    /\ model_out.losses.mel = Mae("target_sequence", "mel")
    /\ model_out.losses.duration = Mae("target_durations", "duration")

\* C7 as stated: the total loss a step reports is the weighted sum of the
\* configured loss terms, and each term's value is returned unaltered.
C7_TotalIsWeightedSumOfConfigured ==
    Stepped =>
        /\ kind = "autoregressive" => ArTotalIsWeightedSum
        /\ kind = "forward" =>
              /\ FwdBreakdown
              /\ RatEq(model_out.loss,
                       <<LossWeights[1] * Mae("target_sequence", "mel")
                         + LossWeights[2] * Mae("target_durations", "duration"), 1>>)

\* C7 (amended): as stated for the autoregressive step; the forward step
\* reports the sum of its two configured terms (mel and duration, both of
\* weight 1) plus the pitch error, which is no configured term and is
\* returned as the third entry of the breakdown.
C7_TotalIsWeightedSumPlusPitch ==
    Stepped =>
        /\ kind = "autoregressive" => ArTotalIsWeightedSum
        /\ kind = "forward" =>
              /\ FwdBreakdown
              /\ RatEq(model_out.losses.pitch, MeanPitchError)
              /\ RatEq(model_out.loss,
                       <<(LossWeights[1] * Mae("target_sequence", "mel")
                          + LossWeights[2] * Mae("target_durations", "duration")) * x_len
                         + MeanPitchError[1], x_len>>)

\* a forward validation step with a pitch error on one token and a token of
\* target pitch 0 that is left out of it
C7_Witness ==
    /\ Stepped
    /\ kind = "forward"
    /\ step_fn = "val_step"
    /\ x_len = 2
    /\ target_pitch = <<<<3>>, <<0>>>>
    /\ pitch = <<<<1>>, <<1>>>>
    /\ model_out.losses.pitch = <<2, 2>>
    /\ model_out.losses.mel # model_out.losses.duration

\* C17: an autoregressive step on a target of L >= 2 frames under
\* 1 <= r <= max_r feeds the decoder frames 0, r, 2r, ... of tar[:-1]
\* (ceil((L - 1) / r) frames), the decoder gives r * ceil((L - 1) / r) >= L - 1
\* frames, every prediction is cut to L - 1 frames, the length of tar[1:] and
\* of the shifted stop labels, and only surplus predicted frames are dropped.
C17_GtaForwardShapes ==
    (Stepped /\ kind = "autoregressive" /\ 1 <= r /\ r <= max_r /\ tar_len >= 2) =>
        LET L == tar_len
            n_in == CeilDiv(L - 1, r)
        IN  /\ model_out.reduced_target = n_in
            /\ \A k \in 1..n_in : /\ model_out.reduced_idx[k] = (k - 1) * r
                                   /\ model_out.reduced_idx[k] < L - 1
            /\ model_out.decoded = r * n_in
            /\ model_out.decoded >= L - 1
            /\ model_out.mel_len = L - 1
            /\ model_out.pred_len = <<L - 1, L - 1, L - 1>>
            /\ model_out.target_len = <<L - 1, L - 1, L - 1>>
            /\ model_out.decoded - (L - 1) < r
            /\ (model_out.decoded > L - 1) <=> ((L - 1) % r # 0)

\* a step on a target of 5 frames under r = 3: 2 decoder input frames, 6
\* predicted frames, cut to the 4 of the target
C17_Witness ==
    /\ Stepped
    /\ kind = "autoregressive"
    /\ r = 3
    /\ tar_len = 5
    /\ model_out.reduced_target = 2
    /\ model_out.decoded = 6
    /\ model_out.pred_len = <<4, 4, 4>>

\* C18: at every call of the loss composer the targets, the predictions, the
\* configured loss functions and the loss weights are lists of one length.
C18_ComposerListsSameLength ==
    Stepped =>
        /\ model_out.n_targets = model_out.n_preds
        /\ model_out.n_preds = model_out.n_losses
        /\ model_out.n_losses = model_out.n_weights

\* the absolute pitch error of token t, none where the target pitch is 0
AbsPitchError(t) ==
    IF target_pitch[t][1] = 0 THEN 0 ELSE Abs(pitch[t][1] - target_pitch[t][1])

\* the mean over the n positions of the absolute pitch error times
\* (1 + k / (n - 1))^2, k the position counted from 0
PositionWeightedPitchError ==
    <<SumSeq([t \in 1..x_len |->
                AbsPitchError(t) * ((x_len - 1) + (t - 1)) * ((x_len - 1) + (t - 1))]),
      x_len * (x_len - 1) * (x_len - 1)>>

\* C19: in the forward model's steps the absolute pitch error at position k
\* of n is weighted by (1 + k / (n - 1))^2, from 1 at the first position to 4
\* at the last, so an equal error counts strictly more at a later position.
C19_PitchErrorWeightedByPosition ==
    (Stepped /\ kind = "forward" /\ x_len >= 2) =>
        RatEq(model_out.losses.pitch, PositionWeightedPitchError)

\* the loss bundle of a step: the total and the breakdown of the class
LossBundleComputed ==
    /\ kind = "autoregressive" =>
          /\ ArTotalIsWeightedSum
          /\ DOMAIN model_out.losses = {"output", "stop_prob", "mel_linear"}
    /\ kind = "forward" =>
          /\ FwdBreakdown
          /\ RatEq(model_out.losses.pitch, MeanPitchError)
          /\ DOMAIN model_out.losses = {"mel", "duration", "pitch"}

\* C13: a train_step that returns made exactly one optimizer update (the
\* step counter and the trainable parameters' version grow by 1); a val_step
\* computes the same loss bundle and changes neither; for both classes.
C13_OnlyTrainStepUpdates ==
    [][(spc = "batch" /\ spc' = "stepped") =>
          /\ LossBundleComputed'
          /\ step_fn' = "train_step" =>
                /\ iterations' = iterations + 1
                /\ weights_version' = weights_version + 1
          /\ step_fn' = "val_step" =>
                /\ iterations' = iterations
                /\ weights_version' = weights_version]_vars

\* a training step of a forward model that had taken MaxSteps steps before
C13_Witness ==
    /\ Stepped
    /\ kind = "forward"
    /\ step_fn = "train_step"
    /\ iterations = MaxSteps + 1
    /\ weights_version = MaxSteps + 1

-----------------------------------------------------------------------------
(* Properties of the binding and of set_constants *)

\* C5: in compiled (non-debug) mode every graph an entry point holds was
\* traced under the current r and drop_n_heads, and every invocation of an
\* entry point ran with the values current at the call.
C5_NoStaleBinding ==
    ~debug =>
        /\ \A e \in DOMAIN bound :
              bound[e].mode = "graph" => bound[e].r = r /\ bound[e].heads = drop_n_heads
        /\ last_call.ep \in EntryPoints(kind) =>
              last_call.ran_r = last_call.r /\ last_call.ran_heads = last_call.heads

\* a compiled decoder entry point invoked after both r and the head-drop
\* count were changed, other entry points already traced again
C5_Witness ==
    /\ ~debug
    /\ kind = "autoregressive"
    /\ r = 1
    /\ drop_n_heads = 1
    /\ last_call.ep = "forward_decoder"
    /\ ~last_call.raised
    /\ bound["forward_decoder"] = Graph(1, 1)
    /\ bound["train_step"] = Graph(1, 1)
    /\ bound["val_step"].mode = "untraced"

IsSetConstants(c) == c.ep = "set_constants"
NoneOrZero(a) == a = None \/ a = Some(0)

\* C6 as stated: each override is applied independently, and an argument
\* that is None or zero leaves its piece of state unchanged.
C6_NoneOrZeroLeavesUnchanged ==
    [][IsSetConstants(last_call') =>
        LET c == last_call'
        IN  /\ NoneOrZero(c.lr) => lr' = lr
            /\ ~NoneOrZero(c.lr) => lr' = c.lr[1]
            /\ NoneOrZero(c.dh) => drop_n_heads' = drop_n_heads
            /\ ~NoneOrZero(c.dh) => drop_n_heads' = c.dh[1]
            /\ kind = "autoregressive" =>
                  /\ NoneOrZero(c.dp) => rate' = rate
                  /\ ~NoneOrZero(c.dp) => rate' = c.dp[1]
                  /\ NoneOrZero(c.rf) => r' = r
                  /\ ~NoneOrZero(c.rf) => r' = c.rf[1]]_vars

\* C6 (amended): each override is applied independently; an argument that is
\* None leaves its piece of state unchanged, and every other value, zero
\* included, is assigned.  The forward class holds only the learning rate
\* and the head-drop count.
C6_NoneLeavesUnchanged ==
    [][IsSetConstants(last_call') =>
        LET c == last_call'
        IN  /\ c.lr = None => lr' = lr
            /\ c.lr # None => lr' = c.lr[1]
            /\ c.dh = None => drop_n_heads' = drop_n_heads
            /\ c.dh # None => drop_n_heads' = c.dh[1]
            /\ kind = "autoregressive" =>
                  /\ c.dp = None => rate' = rate
                  /\ c.dp # None => rate' = c.dp[1]
                  /\ c.rf = None => r' = r
                  /\ c.rf # None => r' = c.rf[1]
            /\ kind = "forward" => rate' = rate /\ r' = r]_vars

\* set_constants(decoder_prenet_dropout=0, drop_n_heads=0) on an instance
\* whose r was changed earlier: both zeros are in force, r is kept
C6_Witness ==
    /\ kind = "autoregressive"
    /\ IsSetConstants(last_call)
    /\ last_call.dp = Some(0) /\ rate = 0
    /\ last_call.dh = Some(0) /\ drop_n_heads = 0
    /\ last_call.rf = None /\ r = 1
    /\ last_call.lr = None /\ lr = 0

-----------------------------------------------------------------------------
(* Properties of the configuration check *)

\* C12: a configuration that lacks a key get_model requires fails at
\* construction with the configuration error, which lists every such key,
\* before any configuration value is read and with no model built; a
\* configuration with all of them does not raise the configuration error.
C12_MissingKeyFailsAtConstruction ==
    LET required == Range(GetModelKeys)
    IN  cpc # "given" =>
            /\ required \ config # {} =>
                  /\ cpc = "failed"
                  /\ error.type = "AssertionError"
                  /\ required \ config \subseteq Range(error.keys)
                  /\ values_read = {}
                  /\ built_model = "none"
            /\ required \subseteq config => error.type # "AssertionError"

\* a callable of the binding table is the one bound before: untouched, or
\* the same tf.function after its first call traced it
SameCallable(old, new) ==
    \/ new = old
    \/ old.mode = "untraced" /\ new = Graph(r, drop_n_heads)

\* C20: a predict, train_step, val_step, forward, encoder or decoder call
\* leaves r, drop_n_heads, the stop index and the bound entry points as they
\* are, and a set_constants call that passes the current r and the current
\* drop_n_heads (or omits them) changes neither and binds nothing again.
C20_OnlySetConstantsChangesRAndHeads ==
    [][/\ stop_prob_index = 2
       /\ ~IsSetConstants(last_call') =>
             /\ r' = r
             /\ drop_n_heads' = drop_n_heads
             /\ DOMAIN bound' = DOMAIN bound
             /\ \A e \in DOMAIN bound : SameCallable(bound[e], bound'[e])
       /\ (/\ IsSetConstants(last_call')
           /\ kind = "forward" \/ last_call'.rf \in {None, Some(r)}
           /\ last_call'.dh \in {None, Some(drop_n_heads)}) =>
             /\ r' = r
             /\ drop_n_heads' = drop_n_heads
             /\ bound' = bound]_vars

\* set_constants passed the current r to an autoregressive instance that
\* holds a traced graph, and the graph is still bound
C20_Witness ==
    /\ kind = "autoregressive"
    /\ IsSetConstants(last_call)
    /\ last_call.rf = Some(r)
    /\ last_call.dh = None
    /\ r = 2
    /\ bound["forward_decoder"] = Graph(2, 0)
    /\ bound["train_step"].mode = "untraced"

\* the entry points that make a decoder pass
DecoderCalls == {"forward", "forward_decoder", "train_step", "val_step"}

\* C21: after construction and any number of set_constants calls the
\* reduction factor of an autoregressive instance satisfies 1 <= r <= max_r,
\* so no decoder pass fails to reshape its t steps into t * r frames.
C21_ReductionFactorInRange ==
    kind = "autoregressive" =>
        /\ 1 <= r
        /\ r <= max_r
        /\ last_call.ep \in DecoderCalls => ~last_call.raised

====
